---- MODULE Spec2Model ----
(***************************************************************************)
(* beforeiplay_scraper.py: the crawl-transform-persist pipeline.           *)
(*                                                                         *)
(* A Python string is a sequence of one-character strings; the character   *)
(* U+00DF (LATIN SMALL LETTER SHARP S) is written "eszett" and the grave   *)
(* accent U+0060 "grave".  Python's None is the one-element sequence       *)
(* <<"None">>, which is no string over the alphabet.                       *)
(***************************************************************************)
EXTENDS Naturals, Sequences, FiniteSets

VARIABLES
    \* sanitize_filename and the two bucket derivations called on their own
    name, sanitized, category, subdir, spc,
    \* main(): the parsed arguments, the category listing the site serves and
    \* the page it serves at each link, and the number of the invocation
    letter, limit, index, site, invocation,
    \* main(): the position in the function and its locals
    pc, target_letter_category, all_game_links, game_links_to_process,
    i, processed_count, error_count, success, request_made,
    \* save_game_page_as_markdown(): the position in the call and its locals
    mpc, game_info, filename_safe_title, target_subdir, tree, markdown_content,
    \* durable storage under the output directory
    dirs, files,
    \* observers: the storage at the start of the run and of the call, the
    \* fetches of the call, the entries passed to the call, what each call
    \* returned, and the entries after which main slept
    files0, files_before, dirs_before, nfetch, passed, results, sleeps, slept,
    filter_category

sanVars == <<name, sanitized, category, subdir, spc>>
argVars == <<letter, limit, index, site, invocation>>
mainVars == <<pc, target_letter_category, all_game_links, game_links_to_process,
              i, processed_count, error_count, success, request_made>>
callVars == <<mpc, game_info, filename_safe_title, target_subdir, tree,
              markdown_content>>
fsVars == <<dirs, files>>
obsVars == <<files0, files_before, dirs_before, nfetch, passed, results, sleeps,
             slept, filter_category>>
vars == <<sanVars, argVars, mainVars, callVars, fsVars, obsVars>>

----------------------------------------------------------------------------
(* Bounds of the model *)

\* the longest title over the whole title alphabet
MaxTitleLen == 3
\* the longest title over the path alphabet (a letter, period, space, slash)
MaxPathLen == 5
\* the longest prefix put in front of a title padded past max_len
MaxPrefix == 3
\* the longest category listing
MaxCatalog == 3
\* the largest --limit
MaxLimit == 2
\* the invocations of the program on one output directory
MaxInvocations == 2

----------------------------------------------------------------------------
(* Python strings *)

None == <<"None">>

SZ == "eszett"

\* the printable ASCII characters, code points 32..126, in code point order
Ascii ==
    <<" ", "!", "\"", "#", "$", "%", "&", "'", "(", ")", "*", "+", ",", "-", ".", "/",
      "0", "1", "2", "3", "4", "5", "6", "7", "8", "9", ":", ";", "<", "=", ">", "?",
      "@", "A", "B", "C", "D", "E", "F", "G", "H", "I", "J", "K", "L", "M", "N", "O",
      "P", "Q", "R", "S", "T", "U", "V", "W", "X", "Y", "Z", "[", "\\", "]", "^", "_",
      "grave", "a", "b", "c", "d", "e", "f", "g", "h", "i", "j", "k", "l", "m", "n", "o",
      "p", "q", "r", "s", "t", "u", "v", "w", "x", "y", "z", "{", "|", "}", "~">>

Chars == {Ascii[k] : k \in 1..Len(Ascii)} \cup {SZ}

\* ord(c)
Ord == [c \in Chars |->
          IF c = SZ THEN 223
          ELSE 31 + (CHOOSE k \in 1..Len(Ascii) : Ascii[k] = c)]

\* c.upper() for a one-character string c: a string, of two characters for U+00DF
Upper(c) ==
    IF c = SZ THEN <<"S", "S">>
    ELSE IF Ord[c] >= 97 /\ Ord[c] <= 122 THEN <<Ascii[Ord[c] - 32 - 31]>>
    ELSE <<c>>

\* s <= t on Python strings: lexicographic by code point
RECURSIVE StrLE(_, _)
StrLE(s, t) ==
    IF s = <<>> THEN TRUE
    ELSE IF t = <<>> THEN FALSE
    ELSE IF Ord[Head(s)] < Ord[Head(t)] THEN TRUE
    ELSE IF Ord[Head(s)] > Ord[Head(t)] THEN FALSE
    ELSE StrLE(Tail(s), Tail(t))

\* the first re.sub of sanitize_filename: the characters it removes
InvalidChars == {"<", ">", ":", "\"", "/", "\\", "|", "?", "*"}

RemoveInvalid(s) == SelectSeq(s, LAMBDA c : c \notin InvalidChars)

\* the second re.sub: each non-overlapping pair of periods, leftmost first,
\* becomes one underscore
RECURSIVE ReplaceDotDot(_)
ReplaceDotDot(s) ==
    LET at == {k \in 1..(Len(s) - 1) : s[k] = "." /\ s[k + 1] = "."}
    IN  IF at = {} THEN s
        ELSE LET m == CHOOSE k \in at : \A j \in at : k <= j
             IN  SubSeq(s, 1, m - 1) \o <<"_">> \o ReplaceDotDot(SubSeq(s, m + 2, Len(s)))

\* name.strip('. ')
StripChars == {".", " "}

Strip(s) ==
    LET keep == {k \in 1..Len(s) : s[k] \notin StripChars}
    IN  IF keep = {} THEN <<>>
        ELSE LET lo == CHOOSE k \in keep : \A j \in keep : k <= j
                 hi == CHOOSE k \in keep : \A j \in keep : k >= j
             IN  SubSeq(s, lo, hi)

\* s.rsplit(' ', 1)[0]
RSplitSpaceFirst(s) ==
    LET sp == {k \in 1..Len(s) : s[k] = " "}
    IN  IF sp = {} THEN s
        ELSE LET last == CHOOSE k \in sp : \A j \in sp : k >= j
             IN  SubSeq(s, 1, last - 1)

max_len == 100

UnknownGame ==
    <<"_", "u", "n", "k", "n", "o", "w", "n", "_", "g", "a", "m", "e", "_">>

SanitizedEmpty ==
    <<"_", "s", "a", "n", "i", "t", "i", "z", "e", "d", "_", "e", "m", "p", "t", "y", "_">>

\* the cut at max_len without the step back to the last space
Truncate_HardCut(s) ==
    IF Len(s) > max_len THEN SubSeq(s, 1, max_len) ELSE s

\* lines 75-77: name[:max_len].rsplit(' ', 1)[0] for a name longer than max_len
Truncate(s) ==
    IF Len(s) > max_len THEN RSplitSpaceFirst(SubSeq(s, 1, max_len)) ELSE s

\* sanitize_filename with its two re.sub calls in the other order
sanitize_filename_PairsFirst(n) ==
    IF n = None \/ n = <<>> THEN UnknownGame
    ELSE LET cut == Truncate(Strip(RemoveInvalid(ReplaceDotDot(n))))
         IN  IF cut = <<>> THEN SanitizedEmpty ELSE cut

\* sanitize_filename without the test of lines 64-65 for a name that is
\* None or empty
sanitize_filename_NoGuard(n) ==
    LET cut == Truncate(Strip(ReplaceDotDot(RemoveInvalid(n))))
    IN  IF cut = <<>> THEN SanitizedEmpty ELSE cut

\* lines 62-81
sanitize_filename(n) ==
    IF n = None \/ n = <<>> THEN UnknownGame
    ELSE LET cut == Truncate(Strip(ReplaceDotDot(RemoveInvalid(n))))
         IN  IF cut = <<>> THEN SanitizedEmpty ELSE cut


\* lines 99-105: the subdirectory save_game_page_as_markdown stores a title in
TargetSubdir(fst) ==
    LET first_char == IF fst # <<>> THEN Upper(fst[1]) ELSE <<"_">>
    IN  IF StrLE(<<"0">>, first_char) /\ StrLE(first_char, <<"9">>) THEN <<"0", "-", "9">>
        ELSE IF StrLE(<<"A">>, first_char) /\ StrLE(first_char, <<"Z">>) THEN first_char
        ELSE <<"_">>

\* the category of the letter filter without the upper() of line 213
CurrentCategory_NoUpper(fst) ==
    LET first_char == <<fst[1]>>
    IN  IF StrLE(<<"0">>, first_char) /\ StrLE(first_char, <<"9">>) THEN <<"0", "-", "9">>
        ELSE IF StrLE(<<"A">>, first_char) /\ StrLE(first_char, <<"Z">>) THEN first_char
        ELSE <<"_">>

\* lines 213-220: the category main's letter filter gives a title
CurrentCategory(fst) ==
    LET first_char == Upper(fst[1])
    IN  IF StrLE(<<"0">>, first_char) /\ StrLE(first_char, <<"9">>) THEN <<"0", "-", "9">>
        ELSE IF StrLE(<<"A">>, first_char) /\ StrLE(first_char, <<"Z">>) THEN first_char
        ELSE <<"_">>

----------------------------------------------------------------------------
(* The titles sanitize_filename is applied to *)

StringsOver(S, n) == UNION {[1..k -> S] : k \in 0..n}

TitleChars == {"a", "B", "1", ".", " ", "/", "\\", "?", "_", SZ}

ShortTitles == StringsOver(TitleChars, MaxTitleLen)

AffixChars == {"a", ".", " ", "/"}

PathTitles == StringsOver(AffixChars, MaxPathLen)

Fill(n) == [k \in 1..n |-> "a"]

\* titles around and past max_len characters
LongTitles ==
    {p \o Fill(n) \o s :
        p \in StringsOver(AffixChars, MaxPrefix),
        s \in StringsOver(AffixChars, 1),
        n \in (max_len - MaxPrefix - 1)..(max_len + 1)}

TraversalTitle ==
    <<".", ".", "/", ".", ".", "/", "e", "t", "c", "/", "p", "a", "s", "s", "w", "d">>

Titles == ShortTitles \cup PathTitles \cup LongTitles \cup {TraversalTitle, None}

----------------------------------------------------------------------------
(* sanitize_filename called on its own *)

Idle == "idle"

NoLimit == <<>>

NoInfo == [url |-> <<>>, title |-> <<>>]

NoTree == [fetched |-> FALSE, heading |-> <<>>, has_content |-> FALSE]

NoDoc == [from |-> <<>>, text |-> "none"]

NoSite == <<>>

InertSanitize ==
    /\ name = None /\ sanitized = None /\ category = None /\ subdir = None
    /\ spc = Idle

InertCall ==
    /\ mpc = Idle /\ game_info = NoInfo /\ filename_safe_title = <<>>
    /\ target_subdir = <<>> /\ tree = NoTree /\ markdown_content = NoDoc
    /\ success = FALSE /\ request_made = FALSE
    /\ files_before = <<>> /\ dirs_before = {} /\ nfetch = 0

InertRun ==
    /\ letter = None /\ limit = NoLimit /\ index = <<>> /\ site = NoSite
    /\ invocation = 1
    /\ pc = Idle /\ target_letter_category = None
    /\ all_game_links = <<>> /\ game_links_to_process = <<>>
    /\ i = 0 /\ processed_count = 0 /\ error_count = 0
    /\ InertCall
    /\ dirs = {} /\ files = <<>> /\ files0 = <<>>
    /\ passed = <<>> /\ results = <<>> /\ sleeps = <<>>
    /\ slept = FALSE /\ filter_category = <<>>

InitSanitize ==
    /\ name \in Titles
    /\ sanitized = None /\ category = None /\ subdir = None
    /\ spc = "call"
    /\ InertRun

\* sanitize_filename(name)
SanitizeCall ==
    /\ spc = "call"
    /\ sanitized' = sanitize_filename(name)
    /\ spc' = "returned"
    /\ UNCHANGED <<name, category, subdir, argVars, mainVars, callVars, fsVars, obsVars>>

\* lines 209-220 for one title: the category of the letter filter
FilterClassify ==
    /\ spc = "returned"
    /\ sanitized # <<>>
    /\ category = None
    /\ category' = CurrentCategory(sanitized)
    /\ UNCHANGED <<name, sanitized, subdir, spc, argVars, mainVars, callVars, fsVars,
                   obsVars>>

\* lines 96-105 for one title: the subdirectory of the store
StoreClassify ==
    /\ spc = "returned"
    /\ subdir = None
    /\ subdir' = TargetSubdir(sanitized)
    /\ UNCHANGED <<name, sanitized, category, spc, argVars, mainVars, callVars, fsVars,
                   obsVars>>

NextSanitize == SanitizeCall \/ FilterClassify \/ StoreClassify

SpecSanitize == InitSanitize /\ [][NextSanitize]_vars

----------------------------------------------------------------------------
(* The site: the links of its category listing and the page behind each *)

BASE_URL == "https://beforeiplay.com"

a1 == [href |-> "/a1", title |-> <<"a", "1">>]
a1q == [href |-> "/a1%3F", title |-> <<"a", "1", "?">>]
d1x == [href |-> "/1x", title |-> <<"1", "x">>]
qm == [href |-> "/%3F", title |-> <<"?">>]
szx == [href |-> "/%C3%9Fx", title |-> <<SZ, "x">>]

\* two titles with one identifier, a digit, a title sanitized to nothing, and
\* a title whose first letter has a two-letter upper case
PoolLinks == {a1, a1q, d1x, qm, szx}

\* the pages whose markup has no content region
NoContentPages == {"/%3F"}

\* the site as it stands: each page is headed by the title of its link
DefaultSite ==
    [h \in {l.href : l \in PoolLinks} |->
        [heading |-> (CHOOSE l \in PoolLinks : l.href = h).title,
         has_content |-> h \notin NoContentPages]]

\* the category listings: each page of the site is listed at most once
Listings ==
    {l \in StringsOver(PoolLinks, MaxCatalog) :
        \A j, k \in 1..Len(l) : j # k => l[j] # l[k]}

Letters == {None, <<"a">>, <<"0">>, <<"?">>}

Limits == {NoLimit} \cup {<<n>> : n \in 1..MaxLimit}

\* the file a title is stored in, below the output directory
Path(title) ==
    <<TargetSubdir(sanitize_filename(title)), sanitize_filename(title)>>

Root == <<>>

OldDoc == [from |-> <<>>, text |-> "old"]

EmptyDoc == [from |-> <<>>, text |-> "empty"]

FileOf(complete, doc) == [complete |-> complete, doc |-> doc]

\* storage f with the file at path p set to v
PutFile(f, p, v) == [q \in (DOMAIN f) \cup {p} |-> IF q = p THEN v ELSE f[q]]

\* storage f without the file at path p
DropFile(f, p) == [q \in (DOMAIN f) \ {p} |-> f[q]]

----------------------------------------------------------------------------
(* save_game_page_as_markdown(game_info, base_dir) *)

output_filepath == <<target_subdir, filename_safe_title>>

\* what no step of the call touches: the caller's locals and the observers
\* the caller keeps
CallerUnchanged ==
    UNCHANGED <<sanVars, argVars, pc, target_letter_category, all_game_links,
                game_links_to_process, i, processed_count, error_count,
                files0, files_before, dirs_before, passed, results, sleeps,
                slept, filter_category>>

\* the call returns (s, r)
Return(s, r) ==
    /\ success' = s
    /\ request_made' = r
    /\ mpc' = "returned"

\* lines 89-108: the title of the index link decides the file
MComputePath ==
    /\ CallerUnchanged
    /\ mpc = "begin"
    /\ filename_safe_title' = sanitize_filename(game_info.title)
    /\ target_subdir' = TargetSubdir(filename_safe_title')
    /\ mpc' = "makedirs"
    /\ UNCHANGED <<game_info, tree, markdown_content, success, request_made>>
    /\ UNCHANGED <<fsVars, nfetch>>

\* line 111: os.makedirs(output_dir, exist_ok=True); nothing catches its OSError
MMakeDirs ==
    /\ CallerUnchanged
    /\ mpc = "makedirs"
    /\ \/ /\ dirs' = dirs \cup {Root, target_subdir}
          /\ mpc' = "exists"
       \/ /\ target_subdir \notin dirs
          /\ dirs' = dirs
          /\ mpc' = "raised"
    /\ UNCHANGED <<game_info, filename_safe_title, target_subdir, tree,
                   markdown_content, success, request_made, files, nfetch>>

\* the existence check left out: every call goes on to fetch
MExists_NeverSkips ==
    /\ CallerUnchanged
    /\ mpc = "exists"
    /\ mpc' = "fetch"
    /\ UNCHANGED <<game_info, filename_safe_title, target_subdir, tree,
                   markdown_content, success, request_made, fsVars, nfetch>>

\* the skip of an existing file reported as a request made
MExists_SkipReportsRequest ==
    /\ CallerUnchanged
    /\ mpc = "exists"
    /\ IF output_filepath \in DOMAIN files
       THEN Return(TRUE, TRUE)
       ELSE mpc' = "fetch" /\ UNCHANGED <<success, request_made>>
    /\ UNCHANGED <<game_info, filename_safe_title, target_subdir, tree,
                   markdown_content, fsVars, nfetch>>

\* lines 114-116: a file already there is a success without a request
MExists ==
    /\ CallerUnchanged
    /\ mpc = "exists"
    /\ IF output_filepath \in DOMAIN files
       THEN Return(TRUE, FALSE)
       ELSE mpc' = "fetch" /\ UNCHANGED <<success, request_made>>
    /\ UNCHANGED <<game_info, filename_safe_title, target_subdir, tree,
                   markdown_content, fsVars, nfetch>>

\* the page the site serves at a url
PageOf(url) ==
    [fetched |-> TRUE, heading |-> site[url[2]].heading,
     has_content |-> site[url[2]].has_content]

\* a failed fetch reported as no request made
MFetch_FailureNoRequest ==
    /\ CallerUnchanged
    /\ mpc = "fetch"
    /\ nfetch' = nfetch + 1
    /\ \/ /\ tree' = PageOf(game_info.url)
          /\ mpc' = "extract"
          /\ UNCHANGED <<success, request_made>>
       \/ /\ tree' = NoTree
          /\ Return(FALSE, FALSE)
    /\ UNCHANGED <<game_info, filename_safe_title, target_subdir,
                   markdown_content, fsVars>>

\* lines 120-123, fetch_html lines 16-30: one request, a tree or None
MFetch ==
    /\ CallerUnchanged
    /\ mpc = "fetch"
    /\ nfetch' = nfetch + 1
    /\ \/ /\ tree' = PageOf(game_info.url)
          /\ mpc' = "extract"
          /\ UNCHANGED <<success, request_made>>
       \/ /\ tree' = NoTree
          /\ Return(FALSE, TRUE)
    /\ UNCHANGED <<game_info, filename_safe_title, target_subdir,
                   markdown_content, fsVars>>

\* the file named again after the heading of the page, as the statements
\* commented out at lines 134-135 would
MExtract_PageTitlePath ==
    /\ CallerUnchanged
    /\ mpc = "extract"
    /\ filename_safe_title' = sanitize_filename(tree.heading)
    /\ markdown_content' =
          [from |-> game_info.url,
           text |-> IF tree.has_content THEN "converted" ELSE "placeholder"]
    /\ mpc' = "open"
    /\ UNCHANGED <<game_info, target_subdir, tree, success, request_made, fsVars,
                   nfetch>>

\* lines 126-150: the converted content region, or a placeholder document
MExtract ==
    /\ CallerUnchanged
    /\ mpc = "extract"
    /\ markdown_content' =
          [from |-> game_info.url,
           text |-> IF tree.has_content THEN "converted" ELSE "placeholder"]
    /\ mpc' = "open"
    /\ UNCHANGED <<game_info, filename_safe_title, target_subdir, tree,
                   success, request_made, fsVars, nfetch>>

\* line 154: open(output_filepath, 'w') creates the file empty, or raises
MOpen ==
    /\ CallerUnchanged
    /\ mpc = "open"
    /\ \/ /\ files' = PutFile(files, output_filepath, FileOf(FALSE, EmptyDoc))
          /\ mpc' = "write"
          /\ UNCHANGED <<success, request_made>>
       \/ /\ files' = files
          /\ mpc' = "ioerror"
          /\ UNCHANGED <<success, request_made>>
       \/ /\ files' = files
          /\ Return(FALSE, TRUE)
    /\ UNCHANGED <<game_info, filename_safe_title, target_subdir, tree,
                   markdown_content, dirs, nfetch>>

\* lines 155-157 and 165-167: the write and the close of the file
MWrite ==
    /\ CallerUnchanged
    /\ mpc = "write"
    /\ \/ /\ files' = PutFile(files, output_filepath, FileOf(TRUE, markdown_content))
          /\ Return(TRUE, TRUE)
       \/ /\ files' = files
          /\ mpc' = "ioerror"
          /\ UNCHANGED <<success, request_made>>
       \/ /\ files' = files
          /\ Return(FALSE, TRUE)
    /\ UNCHANGED <<game_info, filename_safe_title, target_subdir, tree,
                   markdown_content, dirs, nfetch>>

\* lines 158-164: os.remove(output_filepath), its OSError ignored
MRemove ==
    /\ CallerUnchanged
    /\ mpc = "ioerror"
    /\ \/ /\ output_filepath \in DOMAIN files
          /\ files' = DropFile(files, output_filepath)
       \/ files' = files
    /\ Return(FALSE, TRUE)
    /\ UNCHANGED <<game_info, filename_safe_title, target_subdir, tree,
                   markdown_content, dirs, nfetch>>

\* main or another caller enters the call with an entry
Enter(entry) ==
    /\ game_info' = entry
    /\ mpc' = "begin"
    /\ filename_safe_title' = <<>>
    /\ target_subdir' = <<>>
    /\ tree' = NoTree
    /\ markdown_content' = NoDoc
    /\ nfetch' = 0
    /\ files_before' = files
    /\ dirs_before' = dirs
    /\ passed' = Append(passed, entry)

\* what the observers keep of a call that returned
Outcome ==
    [success |-> success, request_made |-> request_made, nfetch |-> nfetch,
     path |-> output_filepath]

----------------------------------------------------------------------------
(* main() *)

\* str.strip() of the letter argument
StripSpace(s) ==
    LET keep == {k \in 1..Len(s) : s[k] # " "}
    IN  IF keep = {} THEN <<>>
        ELSE LET lo == CHOOSE k \in keep : \A j \in keep : k <= j
                 hi == CHOOSE k \in keep : \A j \in keep : k >= j
             IN  SubSeq(s, lo, hi)

\* str.upper()
RECURSIVE UpperStr(_)
UpperStr(s) == IF s = <<>> THEN <<>> ELSE Upper(Head(s)) \o UpperStr(Tail(s))

\* lines 181-191: the category of the --letter argument, None for no filter
NormalizeLetter(l) ==
    IF l = None \/ l = <<>> THEN None
    ELSE LET u == UpperStr(StripSpace(l))
         IN  IF u = <<"0">> THEN <<"0", "-", "9">>
             ELSE IF Len(u) = 1 /\ StrLE(<<"A">>, u) /\ StrLE(u, <<"Z">>) THEN u
             ELSE IF Len(u) = 1 THEN <<"_">>
             ELSE None

\* lines 44-49: the links of the listing that have a target
LinkEntries(listing) ==
    LET withHref == SelectSeq(listing, LAMBDA l : l.href # "")
    IN  [k \in 1..Len(withHref) |->
            [url |-> <<BASE_URL, withHref[k].href>>, title |-> withHref[k].title]]

\* lines 208-223: whether the letter filter keeps an entry
KeptByFilter(entry, target) ==
    LET fst == sanitize_filename(entry.title)
    IN  fst # <<>> /\ CurrentCategory(fst) = target

\* lines 206-227
FilteredLinks(links, target) ==
    IF target # None
    THEN SelectSeq(links, LAMBDA e : KeptByFilter(e, target))
    ELSE links

\* lines 230-235: the limit, applied to the filtered list
LimitedLinks(links, lim) ==
    IF lim # NoLimit /\ Len(links) > lim[1] THEN SubSeq(links, 1, lim[1]) ELSE links

total_games == Len(game_links_to_process)

\* what no step of main touches outside a call
CallUnchanged ==
    UNCHANGED <<mpc, game_info, filename_safe_title, target_subdir, tree,
                markdown_content, success, request_made, nfetch, files_before,
                dirs_before>>

\* lines 178-196: the letter argument normalized, the output directory made
ParseArgs ==
    /\ pc = "start"
    /\ target_letter_category' = NormalizeLetter(letter)
    /\ \/ /\ dirs' = dirs \cup {Root}
          /\ pc' = "get_links"
       \/ /\ Root \notin dirs
          /\ dirs' = dirs
          /\ pc' = "crashed"
    /\ CallUnchanged
    /\ UNCHANGED <<sanVars, argVars, all_game_links, game_links_to_process, i,
                   processed_count, error_count, files, files0, passed, results,
                   sleeps, slept, filter_category>>

\* lines 199-203, get_game_links lines 32-59: the index fetched once; no links,
\* or no index, ends the run
GetGameLinks ==
    /\ pc = "get_links"
    /\ \E fetched \in BOOLEAN :
          /\ all_game_links' = IF fetched THEN LinkEntries(index) ELSE <<>>
          /\ pc' = IF all_game_links' = <<>> THEN "exit" ELSE "filter"
    /\ CallUnchanged
    /\ UNCHANGED <<sanVars, argVars, target_letter_category, game_links_to_process,
                   i, processed_count, error_count, fsVars, files0, passed,
                   results, sleeps, slept, filter_category>>

\* lines 205-227
FilterByLetter ==
    /\ pc = "filter"
    /\ game_links_to_process' = FilteredLinks(all_game_links, target_letter_category)
    /\ filter_category' =
          IF target_letter_category # None
          THEN [k \in 1..Len(game_links_to_process') |->
                   CurrentCategory(sanitize_filename(game_links_to_process'[k].title))]
          ELSE <<>>
    /\ pc' = "limit"
    /\ CallUnchanged
    /\ UNCHANGED <<sanVars, argVars, target_letter_category, all_game_links, i,
                   processed_count, error_count, fsVars, files0, passed, results,
                   sleeps, slept>>

\* lines 229-246: the limit; nothing left ends the run
ApplyLimit ==
    /\ pc = "limit"
    /\ game_links_to_process' = LimitedLinks(game_links_to_process, limit)
    /\ pc' = IF game_links_to_process' = <<>> THEN "exit" ELSE "loop"
    /\ i' = 0
    /\ processed_count' = 0
    /\ error_count' = 0
    /\ CallUnchanged
    /\ UNCHANGED <<sanVars, argVars, target_letter_category, all_game_links,
                   fsVars, files0, passed, results, sleeps, slept, filter_category>>

\* lines 248-250: the next entry goes to save_game_page_as_markdown
LoopCall ==
    /\ pc = "loop"
    /\ i < total_games
    /\ Enter(game_links_to_process[i + 1])
    /\ pc' = "in_call"
    /\ UNCHANGED <<sanVars, argVars, target_letter_category, all_game_links,
                   game_links_to_process, i, processed_count, error_count,
                   success, request_made, fsVars, files0, results, sleeps, slept,
                   filter_category>>

\* the tally without the entries skipped for an existing file
AfterCall_SkipUncounted ==
    /\ pc = "in_call"
    /\ mpc = "returned"
    /\ IF success /\ request_made
       THEN processed_count' = processed_count + 1 /\ error_count' = error_count
       ELSE IF ~success
       THEN error_count' = error_count + 1 /\ processed_count' = processed_count
       ELSE UNCHANGED <<processed_count, error_count>>
    /\ results' = Append(results, Outcome)
    /\ pc' = "delay"
    /\ CallUnchanged
    /\ UNCHANGED <<sanVars, argVars, target_letter_category, all_game_links,
                   game_links_to_process, i, fsVars, files0, passed, sleeps,
                   slept, filter_category>>

\* lines 250-254: the call returned, the tally counts it
AfterCall ==
    /\ pc = "in_call"
    /\ mpc = "returned"
    /\ IF success
       THEN processed_count' = processed_count + 1 /\ error_count' = error_count
       ELSE error_count' = error_count + 1 /\ processed_count' = processed_count
    /\ results' = Append(results, Outcome)
    /\ pc' = "delay"
    /\ CallUnchanged
    /\ UNCHANGED <<sanVars, argVars, target_letter_category, all_game_links,
                   game_links_to_process, i, fsVars, files0, passed, sleeps,
                   slept, filter_category>>

\* the OSError of line 111 leaves the call and main: the run ends in a traceback
Propagate ==
    /\ pc = "in_call"
    /\ mpc = "raised"
    /\ pc' = "crashed"
    /\ CallUnchanged
    /\ UNCHANGED <<sanVars, argVars, target_letter_category, all_game_links,
                   game_links_to_process, i, processed_count, error_count,
                   fsVars, files0, passed, results, sleeps, slept, filter_category>>

\* the delay without the test for the last entry
MaybeSleep_AfterLast ==
    /\ pc = "delay"
    /\ IF request_made
       THEN sleeps' = Append(sleeps, i + 1) /\ slept' = TRUE
       ELSE sleeps' = sleeps /\ slept' = FALSE
    /\ i' = i + 1
    /\ pc' = "loop"
    /\ CallUnchanged
    /\ UNCHANGED <<sanVars, argVars, target_letter_category, all_game_links,
                   game_links_to_process, processed_count, error_count, fsVars,
                   files0, passed, results, filter_category>>

\* the delay without the test of request_made
MaybeSleep_AfterSkip ==
    /\ pc = "delay"
    /\ IF i < total_games - 1
       THEN sleeps' = Append(sleeps, i + 1) /\ slept' = TRUE
       ELSE sleeps' = sleeps /\ slept' = FALSE
    /\ i' = i + 1
    /\ pc' = "loop"
    /\ CallUnchanged
    /\ UNCHANGED <<sanVars, argVars, target_letter_category, all_game_links,
                   game_links_to_process, processed_count, error_count, fsVars,
                   files0, passed, results, filter_category>>

\* lines 256-262: time.sleep after a call that made a request, unless it was
\* the last entry; then the next iteration
MaybeSleep ==
    /\ pc = "delay"
    /\ IF request_made /\ i < total_games - 1
       THEN sleeps' = Append(sleeps, i + 1) /\ slept' = TRUE
       ELSE sleeps' = sleeps /\ slept' = FALSE
    /\ i' = i + 1
    /\ pc' = "loop"
    /\ CallUnchanged
    /\ UNCHANGED <<sanVars, argVars, target_letter_category, all_game_links,
                   game_links_to_process, processed_count, error_count, fsVars,
                   files0, passed, results, filter_category>>

\* lines 265-268: the loop is over, the tally is printed
Finish ==
    /\ pc = "loop"
    /\ i >= total_games
    /\ pc' = "done"
    /\ CallUnchanged
    /\ UNCHANGED <<sanVars, argVars, target_letter_category, all_game_links,
                   game_links_to_process, i, processed_count, error_count,
                   fsVars, files0, passed, results, sleeps, slept, filter_category>>

\* the storage a run may find: documents of earlier runs at files of the listing
Storages(listing) ==
    {[p \in S |-> FileOf(TRUE, OldDoc)] :
        S \in SUBSET {Path(listing[k].title) : k \in 1..Len(listing)}}

DirsOf(f) == IF DOMAIN f = {} THEN {} ELSE {Root} \cup {p[1] : p \in DOMAIN f}

Init ==
    /\ InertSanitize
    /\ letter \in Letters
    /\ limit \in Limits
    /\ index \in Listings
    /\ site = DefaultSite
    /\ invocation = 1
    /\ files \in Storages(index)
    /\ files0 = files
    /\ dirs = DirsOf(files)
    /\ pc = "start"
    /\ target_letter_category = None
    /\ all_game_links = <<>> /\ game_links_to_process = <<>>
    /\ i = 0 /\ processed_count = 0 /\ error_count = 0
    /\ InertCall
    /\ passed = <<>> /\ results = <<>> /\ sleeps = <<>>
    /\ slept = FALSE /\ filter_category = <<>>

Next ==
    \/ ParseArgs \/ GetGameLinks \/ FilterByLetter \/ ApplyLimit
    \/ LoopCall \/ AfterCall \/ Propagate \/ MaybeSleep \/ Finish
    \/ MComputePath \/ MMakeDirs \/ MExists \/ MFetch \/ MExtract
    \/ MOpen \/ MWrite \/ MRemove

Spec == Init /\ [][Next]_vars

----------------------------------------------------------------------------
(* save_game_page_as_markdown called twice in a row on one entry, with one   *)
(* output directory, from a storage without the entry's file                 *)

\* the storages with documents of earlier runs at files of other titles
StoragesWithout(title) ==
    {[p \in S |-> FileOf(TRUE, OldDoc)] :
        S \in SUBSET ({Path(l.title) : l \in PoolLinks} \ {Path(title)})}

InitTwice ==
    /\ InertSanitize
    /\ letter = None /\ limit = NoLimit
    /\ index \in {<<l>> : l \in PoolLinks}
    /\ site = DefaultSite
    /\ invocation = 1
    /\ pc = "twice"
    /\ target_letter_category = None
    /\ all_game_links = LinkEntries(index)
    /\ game_links_to_process = all_game_links
    /\ i = 0 /\ processed_count = 0 /\ error_count = 0
    /\ InertCall
    /\ files \in StoragesWithout(index[1].title)
    /\ files0 = files
    /\ dirs = DirsOf(files)
    /\ passed = <<>> /\ results = <<>> /\ sleeps = <<>>
    /\ slept = FALSE /\ filter_category = <<>>

TwiceCall ==
    /\ pc = "twice"
    /\ i < 2
    /\ Enter(game_links_to_process[1])
    /\ pc' = "twice_in_call"
    /\ UNCHANGED <<sanVars, argVars, target_letter_category, all_game_links,
                   game_links_to_process, i, processed_count, error_count,
                   success, request_made, fsVars, files0, results, sleeps, slept,
                   filter_category>>

TwiceReturn ==
    /\ pc = "twice_in_call"
    /\ mpc = "returned"
    /\ results' = Append(results, Outcome)
    /\ i' = i + 1
    /\ pc' = IF i' = 2 THEN "twice_done" ELSE "twice"
    /\ CallUnchanged
    /\ UNCHANGED <<sanVars, argVars, target_letter_category, all_game_links,
                   game_links_to_process, processed_count, error_count, fsVars,
                   files0, passed, sleeps, slept, filter_category>>

TwiceRaise ==
    /\ pc = "twice_in_call"
    /\ mpc = "raised"
    /\ pc' = "twice_raised"
    /\ CallUnchanged
    /\ UNCHANGED <<sanVars, argVars, target_letter_category, all_game_links,
                   game_links_to_process, i, processed_count, error_count,
                   fsVars, files0, passed, results, sleeps, slept, filter_category>>

NextTwice ==
    \/ TwiceCall \/ TwiceReturn \/ TwiceRaise
    \/ MComputePath \/ MMakeDirs \/ MExists \/ MFetch \/ MExtract
    \/ MOpen \/ MWrite \/ MRemove

SpecTwice == InitTwice /\ [][NextTwice]_vars

\* C1 as stated: the two calls make exactly one fetch in total and the second
\* returns (succeeded=true, requestMade=false)
C1_OneFetchInTwoCalls ==
    pc = "twice_done" =>
        /\ results[1].nfetch + results[2].nfetch = 1
        /\ results[2].success /\ ~results[2].request_made

\* C1 amended: if the first call succeeds, the two calls make exactly one
\* fetch in total and the second returns (succeeded=true, requestMade=false);
\* if the first call fails and leaves no file, the second call fetches again
C1_OneFetchAfterSuccess ==
    pc = "twice_done" =>
        /\ results[1].success =>
              /\ results[1].nfetch + results[2].nfetch = 1
              /\ results[2].success /\ ~results[2].request_made
        /\ (~results[1].success /\ results[1].path \notin DOMAIN files_before) =>
              /\ results[1].nfetch + results[2].nfetch = 2
              /\ results[2].request_made

\* both calls returned and the first wrote the document
C1_Witness ==
    /\ pc = "twice_done"
    /\ results[1].success /\ results[1].request_made
    /\ results[1].path \in DOMAIN files /\ files[results[1].path].complete

----------------------------------------------------------------------------
(* Claims about save_game_page_as_markdown and main *)

Range(q) == {q[k] : k \in 1..Len(q)}

\* the entries whose iteration of main's loop is over
Iterated == IF pc \in {"loop", "in_call", "delay", "done", "crashed"} THEN i ELSE 0

\* C2: a call that returns succeeded=false leaves no file at the destination
C2_NoFileAfterFailure ==
    (mpc = "returned" /\ ~success) => output_filepath \notin DOMAIN files

\* C3: requestMade is false exactly when the destination file existed at the
\* existence check, and then the call fetched nothing and wrote nothing; in
\* every other case requestMade is true and the call made exactly one fetch
C3_RequestMade ==
    mpc = "returned" =>
        LET there == Path(game_info.title) \in DOMAIN files_before
        IN  /\ (request_made = FALSE) <=> there
            /\ there => (nfetch = 0 /\ files = files_before /\ dirs = dirs_before)
            /\ ~there => (request_made /\ nfetch = 1)

\* a call returned a failure after its request, in a run with an earlier call
\* that was skipped
C3_Witness ==
    /\ mpc = "returned" /\ pc = "in_call"
    /\ request_made /\ ~success /\ nfetch = 1
    /\ \E k \in 1..Len(results) : ~results[k].request_made /\ results[k].nfetch = 0

\* C4: main sleeps after entry k if and only if the call for entry k returned
\* requestMade=true and entry k is not the last of the filtered, limited list
C4_SleepGating ==
    /\ \A k \in 1..Iterated :
          (k \in Range(sleeps)) <=> (results[k].request_made /\ k < total_games)
    /\ Range(sleeps) \subseteq 1..Iterated
    /\ \A j, k \in 1..Len(sleeps) : j < k => sleeps[j] < sleeps[k]
    /\ (pc = "loop" /\ i >= 1) => (slept <=> i \in Range(sleeps))

\* a run ended that slept after an entry, did not sleep after a skipped entry
\* that was not the last, and did not sleep after a last entry that made a request
C4_Witness ==
    /\ pc = "done"
    /\ sleeps # <<>>
    /\ \E k \in 1..(total_games - 1) : ~results[k].request_made /\ k \notin Range(sleeps)
    /\ results[total_games].request_made

\* the scenario of C5: three entries, of which only the second has a file at
\* its destination when the run starts
C5_Scenario ==
    /\ pc \in {"loop", "in_call", "delay", "done", "crashed"}
    /\ total_games = 3
    /\ Path(game_links_to_process[2].title) \in DOMAIN files0
    /\ Path(game_links_to_process[1].title) \notin DOMAIN files0
    /\ Path(game_links_to_process[3].title) \notin DOMAIN files0

\* C5 as stated: in the scenario main sleeps exactly twice, after entries 1 and 3
C5_SleepsTwice ==
    (C5_Scenario /\ pc = "done") => sleeps = <<1, 3>>

\* C5 amended: in the scenario main sleeps exactly once, after entry 1, and
\* neither after entry 2 nor after entry 3, the last
C5_SleepsOnce ==
    C5_Scenario =>
        /\ sleeps \in {<<>>, <<1>>}
        /\ Iterated >= 1 => sleeps = <<1>>
        /\ pc = "done" => sleeps = <<1>>

\* the scenario ran to its end
C5_Witness ==
    /\ C5_Scenario /\ pc = "done"
    /\ results[3].request_made

\* the bucket key of an identifier as the specification derives it: a digit
\* gives 0-9, a letter its upper-case letter, anything else the underscore
BucketKeys ==
    {<<"0", "-", "9">>, <<"_">>} \cup {<<Ascii[k]>> : k \in 34..59}

BucketKey(ident) ==
    LET c == ident[1]
    IN  IF c \in {Ascii[k] : k \in 17..26} THEN <<"0", "-", "9">>
        ELSE IF c \in {Ascii[k] : k \in 34..59} THEN <<c>>
        ELSE IF c \in {Ascii[k] : k \in 66..91} THEN <<Ascii[Ord[c] - 63]>>
        ELSE <<"_">>

\* the entries a run is to process: those of the listing whose bucket key is
\* the category of the filter, then the first N of them
ToProcess ==
    LET kept == IF target_letter_category = None THEN all_game_links
                ELSE SelectSeq(all_game_links,
                        LAMBDA e : BucketKey(sanitize_filename(e.title))
                                      = target_letter_category)
    IN  IF limit # NoLimit /\ Len(kept) > limit[1] THEN SubSeq(kept, 1, limit[1])
        ELSE kept

\* C6: the entries main passes to save_game_page_as_markdown are the first N
\* entries, in listing order, of the entries whose bucket key matches the filter
C6_FilterThenLimit ==
    pc \in {"done", "exit"} => passed = ToProcess

\* C6 for listings whose identifiers begin with an ASCII character
C6_FilterThenLimitAscii ==
    (pc \in {"done", "exit"}
        /\ \A k \in 1..Len(all_game_links) :
              sanitize_filename(all_game_links[k].title)[1] # SZ)
    => passed = ToProcess

\* two entries of one run, the earlier j and the later k, with one destination
Collide(j, k) ==
    /\ j < k
    /\ passed[j] # passed[k]
    /\ Path(passed[j].title) = Path(passed[k].title)

\* C7 as stated: once a file is written for the earlier of two colliding
\* entries, the later entry's document overwrites it, and after the run the
\* destination holds the document of the later entry
C7_LastWriteWins ==
    pc = "done" =>
        \A j, k \in 1..Len(results) :
            (Collide(j, k) /\ results[j].success /\ results[j].request_made) =>
                /\ Path(passed[k].title) \in DOMAIN files
                /\ files[Path(passed[k].title)].doc.from = passed[k].url

\* C7 amended: once the document of the earlier entry is written, the later
\* entry is skipped without a fetch and the destination keeps the earlier
\* entry's document; the later entry's document is written only if the earlier
\* call failed
C7_FirstWriteWins ==
    \A j, k \in 1..Len(results) :
        Collide(j, k) =>
            /\ (results[j].success /\ results[j].request_made) =>
                  /\ results[k].success /\ ~results[k].request_made
                  /\ results[k].nfetch = 0
                  /\ Path(passed[j].title) \in DOMAIN files
                  /\ files[Path(passed[j].title)].complete
                  /\ files[Path(passed[j].title)].doc.from = passed[j].url
            /\ (results[k].success /\ results[k].request_made) =>
                  /\ ~results[j].success
                  /\ files[Path(passed[k].title)].doc.from = passed[k].url

\* a run ended in which the earlier of two colliding entries was written
C7_Witness ==
    /\ pc = "done"
    /\ \E j, k \in 1..Len(results) :
          Collide(j, k) /\ results[j].success /\ results[j].request_made

\* C8: every file the program creates lies at <BucketKey>/<Identifier>.md for
\* the identifier of a listed title and the bucket key of that identifier, and
\* every subdirectory it creates is named by a bucket key
C8_StorageLayout ==
    /\ \A p \in (DOMAIN files) \ (DOMAIN files0) :
          /\ p[1] \in BucketKeys
          /\ p[1] = BucketKey(p[2])
          /\ \E k \in 1..Len(all_game_links) :
                p[2] = sanitize_filename(all_game_links[k].title)
    /\ (dirs \ (DirsOf(files0) \cup {Root})) \subseteq BucketKeys

\* C8 for the files whose identifier begins with an ASCII character
C8_StorageLayoutAscii ==
    /\ \A p \in (DOMAIN files) \ (DOMAIN files0) :
          p[2][1] # SZ =>
             /\ p[1] \in BucketKeys
             /\ p[1] = BucketKey(p[2])
             /\ \E k \in 1..Len(all_game_links) :
                   p[2] = sanitize_filename(all_game_links[k].title)

\* C10 in a run: with a letter filter, every entry is stored in the category
\* the filter computed for it, which is the category of the filter
C10_RunUnderCategory ==
    target_letter_category # None =>
        /\ (pc = "in_call" /\ mpc \notin {"begin", Idle}) =>
              /\ target_subdir = filter_category[i + 1]
              /\ target_subdir = target_letter_category
        /\ \A p \in (DOMAIN files) \ (DOMAIN files0) : p[1] = target_letter_category

----------------------------------------------------------------------------
(* Claims about sanitize_filename *)

HasDotDot(s) == \E k \in 1..(Len(s) - 1) : s[k] = "." /\ s[k + 1] = "."

HasSeparator(s) == \E k \in 1..Len(s) : s[k] \in {"/", "\\"}

\* C9: for every title, the identifier sanitize_filename returns holds no ".."
\* and no path separator ("/" or "\")
C9_TraversalSafe ==
    spc = "returned" => ~HasDotDot(sanitized) /\ ~HasSeparator(sanitized)

\* a title whose periods meet only once the characters between them are
\* removed, inside the title, was sanitized
C9_Witness ==
    /\ spc = "returned"
    /\ Len(name) = 5
    /\ name[1] = "a" /\ name[2] = "." /\ name[3] = "/" /\ name[4] = "." /\ name[5] = "a"
    /\ sanitized = <<"a", "_", "a">>

\* C10: for every title, the category the letter filter of main computes from
\* sanitize_filename(title) is the subdirectory save_game_page_as_markdown
\* stores the title in
C10_BucketConsistency ==
    (category # None /\ subdir # None) => category = subdir

\* both were computed for a title that begins with a lower-case letter
C10_Witness ==
    /\ category # None /\ subdir # None
    /\ name # None /\ Len(name) >= 1 /\ name[1] = "a"
    /\ subdir = <<"A">>

----------------------------------------------------------------------------
(* main() run on one listing with every --letter argument *)

\* the longest --letter argument
MaxLetterLen == 2

LetterChars == {"a", "B", "0", "1", "9", "?", "_", " ", SZ}

\* the --letter arguments: absent, empty, one character, several characters
RawLetters == StringsOver(LetterChars, MaxLetterLen) \cup {None}

\* a listing with a title of each category: A, 0-9, and _
LetterListing == <<a1, d1x, qm>>

InitLetter ==
    /\ InertSanitize
    /\ letter \in RawLetters
    /\ limit = NoLimit
    /\ index = LetterListing
    /\ site = DefaultSite
    /\ invocation = 1
    /\ files = <<>>
    /\ files0 = files
    /\ dirs = DirsOf(files)
    /\ pc = "start"
    /\ target_letter_category = None
    /\ all_game_links = <<>> /\ game_links_to_process = <<>>
    /\ i = 0 /\ processed_count = 0 /\ error_count = 0
    /\ InertCall
    /\ passed = <<>> /\ results = <<>> /\ sleeps = <<>>
    /\ slept = FALSE /\ filter_category = <<>>

SpecLetter == InitLetter /\ [][Next]_vars

Digits == {Ascii[k] : k \in 17..26}

UpperLetters == {Ascii[k] : k \in 34..59}

LowerLetters == {Ascii[k] : k \in 66..91}

\* the --letter argument without the spaces around it
Given == IF letter = None THEN <<>> ELSE StripSpace(letter)

\* main is past the normalization of the --letter argument
Normalized == pc \notin {"start", Idle}

\* main is past the letter filter, in a run that got the listing
Filtered == pc \in {"limit", "loop", "in_call", "delay", "done"}

\* the part of C11 about letters and symbols: '0' gives the category 0-9, a
\* letter its upper-case letter, a single character that is neither a letter
\* nor a digit the underscore, and an empty or multi-character argument no
\* filter, so that every entry of the listing is kept
C11_LettersAndSymbols ==
    Normalized =>
        /\ Given = <<"0">> => target_letter_category = <<"0", "-", "9">>
        /\ (Len(Given) = 1 /\ Given[1] \in UpperLetters \cup LowerLetters) =>
              target_letter_category = BucketKey(Given)
        /\ (Len(Given) = 1
               /\ Given[1] \in Chars \ (UpperLetters \cup LowerLetters \cup Digits \cup {SZ})) =>
              target_letter_category = <<"_">>
        /\ Len(Given) # 1 =>
              /\ target_letter_category = None
              /\ Filtered => game_links_to_process = all_game_links

\* the part of C11 about digits: a digit '1'..'9' as the --letter argument is
\* treated as no filter: the run has no category and keeps every entry
C11_DigitIsNoFilter ==
    (Normalized /\ Len(Given) = 1 /\ Given[1] \in Digits \ {"0"}) =>
        /\ target_letter_category = None
        /\ Filtered => game_links_to_process = all_game_links

\* what the code does with a digit '1'..'9': the category of the symbols
C11_DigitIsUnderscore ==
    (Normalized /\ Len(Given) = 1 /\ Given[1] \in Digits \ {"0"}) =>
        /\ target_letter_category = <<"_">>
        /\ Filtered => Len(game_links_to_process) = 1

\* C11: the --letter argument '0' normalizes to the category 0-9, a single
\* letter to its upper-case letter, a single non-alphanumeric character to the
\* underscore, and every other argument, the digits '1'..'9' and the
\* multi-character strings included, is no filter: every entry is kept
C11_LetterNormalization == C11_LettersAndSymbols /\ C11_DigitIsNoFilter

----------------------------------------------------------------------------
(* Claims about the length and the ends of the identifier *)

\* a title after the removal of the invalid characters, the replacement of the
\* pairs of periods and the trim of its ends
Cleaned(t) == Strip(ReplaceDotDot(RemoveInvalid(t)))

\* C12: for every title, the identifier is not empty and at most 100 characters
\* long; when the cleaned title is longer than 100 characters, the identifier
\* is its first 100 characters up to the last space among them, or all 100 of
\* them if none is a space
C12_IdentifierBounds ==
    spc = "returned" =>
        /\ Len(sanitized) >= 1
        /\ Len(sanitized) <= 100
        /\ (name # None /\ Len(Cleaned(name)) > 100) =>
              LET prefix == SubSeq(Cleaned(name), 1, 100)
                  spaces == {k \in 1..100 : prefix[k] = " "}
              IN  /\ spaces = {} => sanitized = prefix
                  /\ spaces # {} =>
                        \E k \in spaces :
                            /\ \A j \in spaces : j <= k
                            /\ sanitized = SubSeq(prefix, 1, k - 1)

\* a title longer than the cap, with a space in its first 100 characters, was
\* cut back to the word before the space
C12_Witness ==
    /\ spc = "returned"
    /\ name # None /\ Len(Cleaned(name)) > 100
    /\ name[1] = "a" /\ name[2] = " " /\ name[3] = "a"
    /\ sanitized = <<"a">>

\* a title longer than the cap without a space was cut at 100 characters
C12_WitnessHardCut ==
    /\ spc = "returned"
    /\ name # None /\ Len(Cleaned(name)) > 100
    /\ \A k \in 1..Len(name) : name[k] # " "
    /\ Len(sanitized) = 100

\* C13 as stated: sanitize_filename("") and sanitize_filename(None) each
\* return a fixed sentinel, and the two sentinels differ
C13_DistinctSentinels ==
    spc = "returned" =>
        /\ name \in {<<>>, None} => sanitized \in {UnknownGame, SanitizedEmpty}
        /\ name = <<>> => sanitized # sanitize_filename(None)
        /\ name = None => sanitized # sanitize_filename(<<>>)

\* C13 amended: sanitize_filename("") and sanitize_filename(None) return one
\* and the same sentinel, _unknown_game_; a title that is not empty and of which
\* the cleaning leaves nothing returns the other sentinel, _sanitized_empty_
C13_OneSentinel ==
    spc = "returned" =>
        /\ name \in {<<>>, None} => sanitized = UnknownGame
        /\ (name \notin {<<>>, None} /\ Cleaned(name) = <<>>) =>
              sanitized = SanitizedEmpty
        /\ UnknownGame # SanitizedEmpty

\* sanitize_filename returned the sentinel for the empty title
C13_Witness ==
    /\ spc = "returned"
    /\ name = <<>>
    /\ sanitized = UnknownGame
    /\ sanitize_filename(None) = UnknownGame

\* C19: for every title, the truncated ones included, the identifier neither
\* begins nor ends with a space or a period
C19_TrimmedIdentifier ==
    spc = "returned" =>
        /\ sanitized[1] \notin {" ", "."}
        /\ sanitized[Len(sanitized)] \notin {" ", "."}

\* C19 for the titles that are not truncated, and for the first character of
\* every identifier
C19_TrimmedUnlessTruncated ==
    spc = "returned" =>
        /\ sanitized[1] \notin {" ", "."}
        /\ (name = None \/ Len(Cleaned(name)) <= max_len) =>
              sanitized[Len(sanitized)] \notin {" ", "."}

----------------------------------------------------------------------------
(* Claims about the loop of main *)

\* q is the sequence of the first entries of r
IsPrefix(q, r) == Len(q) <= Len(r) /\ \A k \in 1..Len(q) : q[k] = r[k]

\* the entries went to save_game_page_as_markdown one by one, in the order of
\* the list, and a run that printed its tally passed every one of them
PassedInOrder ==
    /\ pc \in {"loop", "in_call", "delay", "done", "crashed"} =>
          IsPrefix(passed, game_links_to_process)
    /\ pc \in {"in_call"} => Len(passed) = i + 1
    /\ pc \in {"loop", "delay"} => Len(passed) = Len(results)
    /\ pc = "done" => passed = game_links_to_process

\* C15: no error of an entry stops the run: whatever fails in a call, the
\* failure to create the bucket directory included, main passes every entry of
\* the filtered, limited list to save_game_page_as_markdown once, in order, and
\* ends with the tally
C15_NoEntryStopsRun ==
    /\ PassedInOrder
    /\ pc = "crashed" => passed = <<>>

\* C15 for the failures a call reports by its return value: the fetch, the
\* content region, open, write and remove
C15_ReportedFailures ==
    /\ PassedInOrder
    /\ (pc = "crashed" /\ passed # <<>>) =>
          (mpc = "raised" /\ target_subdir \notin dirs)

\* the calls of the run so far that returned succeeded = s
Returned(s) == Cardinality({k \in 1..Len(results) : results[k].success = s})

\* C17: at every point of the loop processed_count + error_count is the number
\* of entries whose call has returned and been counted, each such entry is in
\* one of the two counters, and at the end processed_count is the number of
\* calls that returned succeeded=true, skipped entries included, error_count
\* the number that returned succeeded=false, and their sum the length of the
\* filtered, limited list
C17_TallyAccounting ==
    pc \in {"loop", "in_call", "delay", "done", "crashed"} =>
        /\ processed_count + error_count = Len(results)
        /\ processed_count = Returned(TRUE)
        /\ error_count = Returned(FALSE)
        /\ pc \in {"loop", "in_call"} => Len(results) = i
        /\ pc = "delay" => Len(results) = i + 1
        /\ pc = "done" => processed_count + error_count = total_games

\* a step in the loop changes the counters only when a call has returned,
\* and then adds one to exactly one of them
CountsOnce ==
    pc \in {"loop", "in_call", "delay"} =>
        \/ /\ processed_count' = processed_count
           /\ error_count' = error_count
        \/ /\ pc = "in_call" /\ mpc = "returned" /\ pc' = "delay"
           /\ \/ /\ success
                 /\ processed_count' = processed_count + 1
                 /\ error_count' = error_count
              \/ /\ ~success
                 /\ error_count' = error_count + 1
                 /\ processed_count' = processed_count

\* every step of a run counts an entry at most once, in one counter
C17_OneCounterPerEntry == [][CountsOnce]_vars

\* a run ended with a skipped entry and a written entry among the processed and
\* a failed entry among the errors
C17_Witness ==
    /\ pc = "done"
    /\ processed_count = 2 /\ error_count = 1
    /\ \E k \in 1..3 : results[k].success /\ ~results[k].request_made
    /\ \E k \in 1..3 : results[k].success /\ results[k].request_made

----------------------------------------------------------------------------
(* save_game_page_as_markdown called on one entry, whatever page the site    *)
(* serves for it and whatever the output directory holds                     *)

\* a heading that is the title of no link
OtherHeading == <<"Z", "9">>

\* the pages the site may serve at a link: headed by the title of the link or
\* not, with a content region or without
PagesAt(l) == [heading : {l.title, OtherHeading}, has_content : BOOLEAN]

\* the storages with documents of earlier runs at files of the listed titles
PoolStorages ==
    {[p \in S |-> FileOf(TRUE, OldDoc)] :
        S \in SUBSET {Path(l.title) : l \in PoolLinks}}

InitPages ==
    /\ InertSanitize
    /\ letter = None /\ limit = NoLimit
    /\ index \in {<<l>> : l \in PoolLinks}
    /\ site \in {[DefaultSite EXCEPT ![index[1].href] = pg] : pg \in PagesAt(index[1])}
    /\ invocation = 1
    /\ pc = "twice"
    /\ target_letter_category = None
    /\ all_game_links = LinkEntries(index)
    /\ game_links_to_process = all_game_links
    /\ i = 0 /\ processed_count = 0 /\ error_count = 0
    /\ InertCall
    /\ files \in PoolStorages
    /\ files0 = files
    /\ dirs = DirsOf(files)
    /\ passed = <<>> /\ results = <<>> /\ sleeps = <<>>
    /\ slept = FALSE /\ filter_category = <<>>

SpecPages == InitPages /\ [][NextTwice]_vars

\* the files of storage f that storage g does not hold with the same content
Touched(f, g) ==
    {p \in DOMAIN f : p \notin DOMAIN g \/ f[p] # g[p]}
        \cup ((DOMAIN g) \ (DOMAIN f))

\* C18: the file a call checks for existence and the file it writes are one
\* file, given by the output directory and the title of the listing entry
\* alone: whatever heading and content the fetched page has, the call skips
\* exactly when that file exists, touches no other file, and makes no request
\* before the check
C18_DestinationDeterminism ==
    mpc \notin {Idle, "begin"} =>
        LET dest == Path(game_info.title)
        IN  /\ output_filepath = dest
            /\ mpc \in {"fetch", "extract", "open", "write", "ioerror"} =>
                  dest \notin DOMAIN files_before
            /\ (mpc = "returned" /\ ~request_made) => dest \in DOMAIN files_before
            /\ (mpc = "returned" /\ request_made) => dest \notin DOMAIN files_before
            /\ Touched(files, files_before) \subseteq {dest}
            /\ mpc \in {"makedirs", "exists", "raised"} => nfetch = 0
            /\ dest \in DOMAIN files_before => nfetch = 0

\* a call wrote the document of a page whose heading is not the title of its
\* link, at the file of the title of the link
C18_Witness ==
    /\ mpc = "returned" /\ success /\ request_made
    /\ tree.fetched /\ tree.heading # game_info.title
    /\ sanitize_filename(tree.heading) # sanitize_filename(game_info.title)
    /\ Touched(files, files_before) = {Path(game_info.title)}
    /\ files[Path(game_info.title)].complete

\* the entries of the run whose call, now returned, made a request
Requested == {k \in 1..Len(results) : results[k].nfetch > 0}

\* main slept since the call of entry k returned
SleptSince(k) == \E j \in Range(sleeps) : j >= k

\* the call main is in has just made its request for the page
PageRequested == pc = "in_call" /\ nfetch = 1

\* C16: between any two consecutive requests of a run, the request for the
\* index by get_game_links and the requests for the pages, main sleeps at least
\* once
C16_DelayBetweenRequests ==
    PageRequested =>
        IF Requested = {}
        THEN sleeps # <<>>
        ELSE \E k \in Requested : (\A j \in Requested : j <= k) /\ SleptSince(k)

\* C16 for the requests for pages: main sleeps between any two consecutive of
\* them
C16_DelayBetweenPageRequests ==
    (PageRequested /\ Requested # {}) =>
        \E k \in Requested : (\A j \in Requested : j <= k) /\ SleptSince(k)

\* the first request for a page follows the request for the index without a
\* sleep of main in between
C16_NoDelayAfterIndex ==
    (PageRequested /\ Requested = {}) => sleeps = <<>>

----------------------------------------------------------------------------
(* main() halted by an interrupt of the process and invoked again on the     *)
(* same output directory                                                     *)

\* the listings of the interrupted runs: entries with distinct files
ResumeListings == {<<a1, d1x>>, <<szx, a1, qm>>}

InitResume ==
    /\ InertSanitize
    /\ letter = None /\ limit = NoLimit
    /\ index \in ResumeListings
    /\ site = DefaultSite
    /\ invocation = 1
    /\ files \in Storages(index)
    /\ files0 = files
    /\ dirs = DirsOf(files)
    /\ pc = "start"
    /\ target_letter_category = None
    /\ all_game_links = <<>> /\ game_links_to_process = <<>>
    /\ i = 0 /\ processed_count = 0 /\ error_count = 0
    /\ InertCall
    /\ passed = <<>> /\ results = <<>> /\ sleeps = <<>>
    /\ slept = FALSE /\ filter_category = <<>>

\* the process is interrupted or killed between two steps of the run; nothing
\* catches it (KeyboardInterrupt is no Exception), the storage stays as it is
Interrupt ==
    /\ pc \in {"start", "get_links", "filter", "limit", "loop", "in_call", "delay"}
    /\ pc' = "halted"
    /\ CallUnchanged
    /\ UNCHANGED <<sanVars, argVars, target_letter_category, all_game_links,
                   game_links_to_process, i, processed_count, error_count,
                   fsVars, files0, passed, results, sleeps, slept, filter_category>>

\* lines 270-271: the program is invoked again with the same arguments on the
\* same output directory; nothing but the storage is carried over
Restart ==
    /\ pc = "halted"
    /\ invocation < MaxInvocations
    /\ invocation' = invocation + 1
    /\ pc' = "start"
    /\ target_letter_category' = None
    /\ all_game_links' = <<>> /\ game_links_to_process' = <<>>
    /\ i' = 0 /\ processed_count' = 0 /\ error_count' = 0
    /\ success' = FALSE /\ request_made' = FALSE
    /\ mpc' = Idle /\ game_info' = NoInfo /\ filename_safe_title' = <<>>
    /\ target_subdir' = <<>> /\ tree' = NoTree /\ markdown_content' = NoDoc
    /\ files0' = files /\ files_before' = <<>> /\ dirs_before' = {} /\ nfetch' = 0
    /\ passed' = <<>> /\ results' = <<>> /\ sleeps' = <<>>
    /\ slept' = FALSE /\ filter_category' = <<>>
    /\ UNCHANGED <<sanVars, letter, limit, index, site, fsVars>>

NextResume == Next \/ Interrupt \/ Restart

SpecResume == InitResume /\ [][NextResume]_vars

\* the file at path p of storage f holds a completely written document
Materialized(f, p) == p \in DOMAIN f /\ f[p].complete

\* C14: when a run is halted, at any point, every file of the storage holds a
\* completely written document, and the next invocation fetches exactly the
\* entries whose document was not completely written: none is skipped with a
\* partial or empty file
C14_InterruptSafe ==
    /\ pc = "halted" => \A p \in DOMAIN files : files[p].complete
    /\ invocation > 1 =>
          \A k \in 1..Len(results) :
              (results[k].nfetch > 0) <=> ~Materialized(files0, results[k].path)

\* C14 for the documents that were completely written: an interrupt leaves
\* them as they are and the next invocation skips them without a request
C14_WrittenFilesResume ==
    /\ \A p \in DOMAIN files0 :
          files0[p].complete => (p \in DOMAIN files /\ files[p] = files0[p])
    /\ \A k \in 1..Len(results) :
          Materialized(files0, results[k].path) =>
              (results[k].nfetch = 0 /\ results[k].success)

\* an invocation after an interrupt skipped an entry whose file the
\* interrupted run had opened and not written
C14_PartialFileSkipped ==
    /\ invocation > 1
    /\ \E k \in 1..Len(results) :
          /\ results[k].path \in DOMAIN files0
          /\ ~files0[results[k].path].complete
          /\ results[k].success /\ ~results[k].request_made

====
